---- MODULE Spec2Model ----
(***************************************************************************)
(* Playback / recording engine of MemeReveal: the App component's state    *)
(* (appState, imageSrc, segments) and the VideoCanvas component's          *)
(* playSequence loop with its refs, timers, audio sources and recorder.    *)
(*                                                                         *)
(* The repository holds two versions of VideoCanvas.playSequence:          *)
(*   "ScreenShare"  part_004:339-486  (records through getDisplayMedia,    *)
(*                  browser speech in preview and in recording)            *)
(*   "JIT"          part_004:864-1007 (records the canvas stream, fetches  *)
(*                  narration just in time while recording)                *)
(* The variable build says which one is running; it never changes.         *)
(*                                                                         *)
(* Time is counted in tenths of a second (200 ms = 2, 1.0 s = 10).         *)
(* Every await on a timer or on the platform (decodeAudioData, fetch,      *)
(* speech, getDisplayMedia, MediaRecorder events) ends a step; the code    *)
(* between two such awaits runs as one step, as on the event loop.         *)
(***************************************************************************)
EXTENDS Integers, Sequences, FiniteSets, TLC

\* ------------------------------------------------------------- bounds ----
MaxSegs == 2
MaxRuns == 2
MaxUploads == 2
MaxChunks == 1
MaxRunsSession == 3

\* -------------------------------------------------- program constants ----
PauseJIT == 2
PauseScreenShare == 3
TtsPause == 5
TailWait == 5
DefaultVisualDuration == 10

Builds == {"ScreenShare", "JIT"}

\* AppState enum (types.ts); GENERATING_AUDIO belongs to the AI upload path.
AppStates == {"IDLE", "ANALYZING", "GENERATING_AUDIO", "READY", "PLAYING", "RECORDING"}

Running == {"PLAYING", "RECORDING"}

\* The states in which App renders the editor and, with it, VideoCanvas.
EditorStates == {"READY", "PLAYING", "RECORDING"}

Max(a, b) == IF a >= b THEN a ELSE b

\* ------------------------------------------------------------ segments ----
\* An audio payload (audioBase64) is a token: "" is no payload, "A30" and
\* "A5" decode to buffers of 3.0 s and 0.5 s, "BAD" makes the decoder throw.
Payloads == {"", "A30", "A5", "BAD"}

Decodable(p) == p \in {"A30", "A5", "J25"}

BufferDuration(p) == CASE p = "A30" -> 30 [] p = "A5" -> 5 [] p = "J25" -> 25 [] OTHER -> 0

\* The segments an upload can leave in the list (MemeSegment, types.ts):
\* narrated ones from the AI path, text-only ones from the local path, and
\* one whose text was cleared in the editor.
SegmentPool ==
  { [id |-> 1, text |-> "Hello world", audioBase64 |-> "A30", audioType |-> "pcm", duration |-> 20],
    [id |-> 2, text |-> "Hello world", audioBase64 |-> "A5",  audioType |-> "mp3", duration |-> 10],
    [id |-> 3, text |-> "Hello world", audioBase64 |-> "",    audioType |-> "pcm", duration |-> 15],
    [id |-> 4, text |-> "",            audioBase64 |-> "",    audioType |-> "pcm", duration |-> 10],
    [id |-> 5, text |-> "Hello world", audioBase64 |-> "BAD", audioType |-> "pcm", duration |-> 20] }

PoolById(k) == CHOOSE s \in SegmentPool : s.id = k

\* Lists of 1..MaxSegs pool segments in increasing id order.
SegmentLists ==
  { l \in UNION { [1..n -> SegmentPool] : n \in 1..MaxSegs } :
      \A a, b \in DOMAIN l : a < b => l[a].id < l[b].id }

\* --------------------------------------------------------------- state ----
VARIABLES
  build,                    \* which version of VideoCanvas is running
  appState,                 \* App: useState<AppState>
  imageSrc,                 \* App: TRUE when an image is loaded (non-null)
  segments,                 \* App: the ordered segment list
  uploads,                  \* number of uploads so far
  pendingAnalysis,          \* processImage calls awaiting their analysis
  mounted,                  \* id of the mounted VideoCanvas instance, 0 if none
  mounts,                   \* number of VideoCanvas instances mounted so far
  appStateRef,              \* per instance: appStateRef.current
  isPlayingRef,             \* per instance: isPlayingRef.current
  currentSegmentIndexRef,   \* per instance: currentSegmentIndexRef.current
  mediaRecorderRef,         \* per instance: the run whose recorder it holds, 0 if null
  recordedChunksRef,        \* per instance: number of chunks in the array
  runs,                     \* one record per playSequence call, in call order
  error,                    \* App: the error banner's message, "null" if none
  useAI,                    \* App: the analysis mode toggle
  editingSegmentId,         \* App: id of the segment being edited, Null if none
  isProcessingAction,       \* App: an OCR scan of the editor is in flight
  dragMode,                 \* VideoCanvas: NONE, MOVE or one of the four RESIZE modes
  dragStart,                \* VideoCanvas: "set" from a mouse down to the mouse up, else "null"
  initialBox,               \* VideoCanvas: the box at the mouse down, Null if none
  now,                      \* the wall clock read by Date.now()
  analysis,                 \* the processImage call in flight, NoAnalysis if none
  ocr,                      \* the performOCROnBox call the editor awaits, NoOcr if none
  edits,                    \* number of edits made in the editor so far
  call                      \* a call of a service function: name, argument, result

\* The variables of the playback engine.
pvars == <<build, appState, imageSrc, segments, uploads, pendingAnalysis, mounted, mounts,
           appStateRef, isPlayingRef, currentSegmentIndexRef, mediaRecorderRef,
           recordedChunksRef, runs>>

\* The playback variables but the segment list.
pvars_but_segments == <<build, appState, imageSrc, uploads, pendingAnalysis, mounted, mounts,
                        appStateRef, isPlayingRef, currentSegmentIndexRef, mediaRecorderRef,
                        recordedChunksRef, runs>>

\* The variables of the editor, of the analysis and of the service calls.
evars == <<error, useAI, editingSegmentId, isProcessingAction, dragMode, dragStart,
           initialBox, now, analysis, ocr, edits, call>>

vars == <<pvars, evars>>

Instances == 1..MaxUploads

\* The state as one record, so that the sequential code of a handler is a
\* composition of functions on it.
Cur ==
  [appState |-> appState, imageSrc |-> imageSrc, segments |-> segments,
   uploads |-> uploads, pendingAnalysis |-> pendingAnalysis,
   mounted |-> mounted, mounts |-> mounts, appStateRef |-> appStateRef,
   isPlayingRef |-> isPlayingRef, currentSegmentIndexRef |-> currentSegmentIndexRef,
   mediaRecorderRef |-> mediaRecorderRef, recordedChunksRef |-> recordedChunksRef,
   runs |-> runs]

\* The playback variables take the values of w.
CommitPlayback(w) ==
  \E v \in {w} :
    /\ appState' = v.appState
    /\ imageSrc' = v.imageSrc
    /\ segments' = v.segments
    /\ uploads' = v.uploads
    /\ pendingAnalysis' = v.pendingAnalysis
    /\ mounted' = v.mounted
    /\ mounts' = v.mounts
    /\ appStateRef' = v.appStateRef
    /\ isPlayingRef' = v.isPlayingRef
    /\ currentSegmentIndexRef' = v.currentSegmentIndexRef
    /\ mediaRecorderRef' = v.mediaRecorderRef
    /\ recordedChunksRef' = v.recordedChunksRef
    /\ runs' = v.runs
    /\ UNCHANGED build

Commit(w) == CommitPlayback(w) /\ UNCHANGED evars

\* ------------------------------------------------- rendering and effects ----
\* F applied to the value of x, with x evaluated once.
Then(x, F(_)) == CHOOSE y \in {F(v) : v \in {x}} : TRUE

\* Ghost bookkeeping: a run is interrupted when, before it is done, its
\* instance is unmounted or the appState effect of its instance takes the
\* else branch (the app state left PLAYING/RECORDING).
Interrupt(rs, m) ==
  [k \in DOMAIN rs |->
     IF rs[k].inst = m /\ rs[k].pc # "done" THEN [rs[k] EXCEPT !.interrupted = TRUE] ELSE rs[k]]

\* App renders VideoCanvas only in the editor states and with an image.
\* Mounting runs the effects once (appStateRef, then the appState effect's
\* else branch); unmounting runs none, as the effects have no cleanup.
Rendered(w) ==
  LET At(v) ==
      LET show == v.appState \in EditorStates /\ v.imageSrc
          m == v.mounted
          n == v.mounts + 1
      IN IF show /\ m = 0
           THEN [v EXCEPT !.mounted = n, !.mounts = n,
                          !.appStateRef[n] = v.appState, !.isPlayingRef[n] = FALSE]
         ELSE IF ~show /\ m # 0
           THEN [v EXCEPT !.mounted = 0, !.runs = Interrupt(@, m)]
         ELSE v
  IN Then(w, At)

\* setAppState(s) followed by the render and the effects it triggers on the
\* mounted instance. The PLAYING/RECORDING branch (the call of playSequence)
\* is taken by the Preview and Export actions, the only ones to set them.
SetAppState(w, s) ==
  LET At(v) ==
      IF v.appState = s THEN v
      ELSE LET w1 == Rendered([v EXCEPT !.appState = s])
               m == v.mounted
           IN IF m # 0 /\ w1.mounted = m
                THEN IF s \in Running
                       THEN [w1 EXCEPT !.appStateRef[m] = s]
                       ELSE [w1 EXCEPT !.appStateRef[m] = s, !.isPlayingRef[m] = FALSE,
                                       !.runs = Interrupt(@, m)]
                ELSE w1
  IN Then(w, At)

\* ---------------------------------------------------------- drawFrame ----
\* The number of segments the playback branch of drawFrame draws unblurred.
RevealedCount(state, currentIndex, len) ==
  LET maxIndex == IF state \in Running THEN currentIndex
                  ELSE IF state = "READY" THEN -1 ELSE len - 1
  IN Cardinality({index \in 0..(len - 1) : index <= maxIndex /\ index >= 0})

\* What a frame drawn for run r shows: drawFrame reads the refs of the
\* run's instance and the segment list of the run's closure. It writes no
\* state of the program, so a frame is this function of the state at the
\* moment it is drawn.
Revealed(r) ==
  RevealedCount(appStateRef[runs[r].inst], currentSegmentIndexRef[runs[r].inst],
                Len(runs[r].segments))

\* -------------------------------------------------------- playSequence ----
\* A run is one call of playSequence(isRecording). segments is the list its
\* closure captured (dropped with the closure when the call returns); pc is the await it is suspended at; timer is the delay
\* of the timer it waits for; sounding holds the indices of the segments
\* whose buffer source is still playing; recorder is the state of the
\* MediaRecorder the run created; download is the number of chunks its
\* onstop handler put into the downloaded file (-1: no download); outcome is
\* how the call ended: "completed", "crashed" (an exception left it) or the
\* cause of a failed recording setup.
NewRun(w, isRecording) ==
  [inst |-> w.mounted, isRecording |-> isRecording, segments |-> w.segments,
   pc |-> "start", i |-> 0, audioDuration |-> 0, timer |-> 0, src |-> "none",
   sounding |-> {}, visited |-> 0, recorder |-> "none", download |-> -1,
   alerted |-> FALSE, outcome |-> "", interrupted |-> FALSE]

Seg(run) == run.segments[run.i + 1]

\* Mutant of AudioSource: browser speech for every text segment, also while
\* recording.
AudioSourceSpeechAlways(b, isRecording, seg) ==
  IF seg.audioBase64 # "" THEN "buffer"
  ELSE IF seg.text # "" THEN "speech"
  ELSE "none"

\* The audio source of a segment: the branch of the if / else-if chain.
AudioSource(b, isRecording, seg) ==
  IF seg.audioBase64 # "" THEN "buffer"
  ELSE IF seg.text # "" THEN (IF b = "JIT" /\ isRecording THEN "fetch" ELSE "speech")
  ELSE "none"

\* Mutant of WaitDelay: the nominal duration, whatever was played.
WaitDelayNominal(b, isRecording, audioDuration, seg) == seg.duration

\* The delay of the timer that follows the audio step; -1 when the code
\* sets none and goes straight to the inter-segment pause.
WaitDelay(b, isRecording, audioDuration, seg) ==
  IF b = "JIT"
    THEN LET waitTime == Max(audioDuration, seg.duration)
         IN IF audioDuration > 0 THEN waitTime
            ELSE IF ~isRecording THEN TtsPause ELSE waitTime
    ELSE IF audioDuration > 0 THEN audioDuration
         ELSE IF seg.text = "" /\ seg.audioBase64 = ""
           THEN (IF seg.duration = 0 THEN DefaultVisualDuration ELSE seg.duration)
         ELSE -1

InterSegmentPause(b) == IF b = "JIT" THEN PauseJIT ELSE PauseScreenShare

\* "Wait logic": the code after the audio step, up to its first timer.
WaitLogic(w, r) ==
  LET At(v) ==
      LET run == v.runs[r]
          d == WaitDelay(build, run.isRecording, run.audioDuration, Seg(run))
      IN IF d >= 0
           THEN [v EXCEPT !.runs[r].pc = "wait", !.runs[r].timer = d]
           ELSE [v EXCEPT !.runs[r].pc = "pause", !.runs[r].timer = InterSegmentPause(build)]
  IN Then(w, At)

\* A decoded buffer is handed to a buffer source and started; a payload
\* that does not decode throws into the catch, which only logs.
PlayBuffer(w, r, payload) ==
  LET At(v) ==
      IF Decodable(payload)
        THEN WaitLogic([v EXCEPT !.runs[r].audioDuration = BufferDuration(payload),
                                 !.runs[r].sounding = @ \cup {v.runs[r].i}], r)
        ELSE WaitLogic(v, r)
  IN Then(w, At)

\* The audio step of segment i, up to its first await.
Dispatch(w, r) ==
  LET At(v) ==
      LET run == v.runs[r]
          seg == Seg(run)
          source == AudioSource(build, run.isRecording, seg)
          w1 == [v EXCEPT !.runs[r].src = source]
      IN CASE source = "buffer" ->
                IF seg.audioType = "mp3" THEN [w1 EXCEPT !.runs[r].pc = "decode"]
                ELSE PlayBuffer(w1, r, seg.audioBase64)
           [] source = "fetch" -> [w1 EXCEPT !.runs[r].pc = "fetch"]
           [] source = "speech" -> [w1 EXCEPT !.runs[r].pc = "speak"]
           [] OTHER -> WaitLogic(w1, r)
  IN Then(w, At)

\* The end of playSequence: the flag and the index are reset.
EndRun(w, r) ==
  LET At(v) ==
      LET m == v.runs[r].inst
      IN [v EXCEPT !.isPlayingRef[m] = FALSE, !.currentSegmentIndexRef[m] = -1,
                   !.runs[r].pc = "done", !.runs[r].outcome = "completed",
                   !.runs[r].segments = <<>>,
                   !.runs[r].timer = 0, !.runs[r].audioDuration = 0,
                   !.runs[r].src = "none"]
  IN Then(w, At)

\* An exception leaves playSequence: nothing after the throw is executed.
Crash(w, r) ==
  LET At(v) ==
      [v EXCEPT !.runs[r].pc = "done", !.runs[r].outcome = "crashed", !.runs[r].segments = <<>>,
                !.runs[r].timer = 0, !.runs[r].audioDuration = 0, !.runs[r].src = "none"]
  IN Then(w, At)

\* mediaRecorderRef.current.stop(): legal only on a recorder that records.
\* optional is the ?. of the ScreenShare version.
StopRecorder(w, r, optional) ==
  LET At(v) ==
      LET k == v.mediaRecorderRef[v.runs[r].inst]
      IN IF k = 0 THEN (IF optional THEN EndRun(v, r) ELSE Crash(v, r))
         ELSE IF v.runs[k].recorder = "recording"
           THEN EndRun([v EXCEPT !.runs[k].recorder = "stopping"], r)
         ELSE Crash(v, r)
  IN Then(w, At)

\* The code after the loop.
Finish(w, r) ==
  LET At(v) ==
      LET run == v.runs[r]
          k == v.mediaRecorderRef[run.inst]
      IN IF build = "JIT"
           THEN IF run.isRecording /\ k # 0 /\ v.runs[k].recorder = "recording"
                  THEN [v EXCEPT !.runs[r].pc = "tail", !.runs[r].timer = TailWait,
                                 !.runs[r].audioDuration = 0, !.runs[r].src = "none"]
                  ELSE SetAppState(EndRun(v, r), "READY")
           ELSE IF run.isRecording
                  THEN StopRecorder(v, r, TRUE)
                  ELSE SetAppState(EndRun(v, r), "READY")
  IN Then(w, At)

\* The head of the for loop for the current value of i.
LoopTop(w, r) ==
  LET At(v) ==
      LET run == v.runs[r]
          m == run.inst
      IN IF run.i < Len(run.segments) /\ v.isPlayingRef[m]
           THEN Dispatch([v EXCEPT !.currentSegmentIndexRef[m] = run.i,
                                   !.runs[r].visited = @ + 1,
                                   !.runs[r].audioDuration = 0], r)
           ELSE Finish(v, r)
  IN Then(w, At)

\* "2. PLAYBACK LOOP": the flag is set, the index reset, and the loop
\* entered.
BeginLoop(w, r) ==
  LET At(v) ==
      LET m == v.runs[r].inst
          w1 == [v EXCEPT !.isPlayingRef[m] = TRUE, !.currentSegmentIndexRef[m] = -1,
                          !.runs[r].i = 0]
      IN LoopTop(w1, r)
  IN Then(w, At)

\* Whether the failed setup tells the user: the JIT catch only logs; the
\* ScreenShare version alerts for a missing audio track and, in its catch,
\* for NotAllowedError / SecurityError / a policy message.
SetupAlerts(b, cause) == b = "ScreenShare" /\ cause \in {"denied", "notrack"}

\* A failed recording setup: the state is set back to READY and
\* playSequence returns.
SetupFailed(w, r, cause) ==
  LET At(v) ==
      SetAppState([v EXCEPT !.runs[r].pc = "done", !.runs[r].outcome = cause,
                            !.runs[r].segments = <<>>,
                            !.runs[r].alerted = SetupAlerts(build, cause)], "READY")
  IN Then(w, At)

\* A MediaRecorder is created and started. outcome is "ok", "ctor" (the
\* constructor throws) or "start" (start() throws, after the recorder and
\* the fresh chunk array have been stored in the refs).
CreateRecorder(w, r, outcome) ==
  LET At(v) ==
      LET m == v.runs[r].inst
          stored == [v EXCEPT !.mediaRecorderRef[m] = r, !.recordedChunksRef[m] = 0,
                              !.runs[r].recorder = "inactive"]
      IN CASE outcome = "ctor" -> SetupFailed(v, r, "ctor")
           [] outcome = "start" -> SetupFailed(stored, r, "start")
           [] OTHER -> BeginLoop([stored EXCEPT !.runs[r].recorder = "recording"], r)
  IN Then(w, At)

\* "Setup Recording" and what follows, from the end of the resume await.
Setup(w, r, outcome) ==
  LET At(v) ==
      LET run == v.runs[r]
      IN IF run.isRecording /\ v.mounted = run.inst
           THEN IF build = "JIT" THEN CreateRecorder(v, r, outcome)
                ELSE [v EXCEPT !.runs[r].pc = "permission"]
           ELSE BeginLoop(v, r)
  IN Then(w, At)

\* playSequence from its call to its first await. A suspended AudioContext
\* is resumed first.
PlaySequence(w, isRecording, suspended, outcome) ==
  LET At(v) ==
      LET r == Len(v.runs) + 1
          w1 == [v EXCEPT !.runs = Append(@, NewRun(v, isRecording))]
      IN IF suspended THEN [w1 EXCEPT !.runs[r].pc = "resume"]
         ELSE Setup(w1, r, outcome)
  IN Then(w, At)

RecorderOutcomes == {"ok", "ctor", "start"}

\* What getDisplayMedia and the code after it can come to: the permission
\* is denied (NotAllowedError), another error is thrown, the stream has no
\* audio track, or the recorder is created as in CreateRecorder.
PermissionOutcomes == {"denied", "error", "notrack"} \cup RecorderOutcomes

\* --------------------------------------------------------------- Init ----
\* App's useState initial values (part_002:68-74) and VideoCanvas's
\* (dragMode, dragStart, initialBox); nothing is awaited, no service called.
\* A nullable value is <<>> (null) or <<v>>; a segment id is a tuple, and
\* the null id is the empty one.
Null == <<>>

NoAnalysis == [stage |-> "none"]

NoOcr == [kind |-> "none"]

EditorIdle ==
  /\ error = "null"
  /\ useAI = FALSE
  /\ editingSegmentId = Null
  /\ isProcessingAction = FALSE
  /\ dragMode = "NONE"
  /\ dragStart = "null"
  /\ initialBox = Null
  /\ now = 0
  /\ analysis = NoAnalysis
  /\ ocr = NoOcr
  /\ edits = 0

NoCall == [fn |-> "none"]

PlaybackIdle ==
  /\ appState = "IDLE"
  /\ imageSrc = FALSE
  /\ segments = <<>>
  /\ uploads = 0
  /\ pendingAnalysis = 0
  /\ mounted = 0
  /\ mounts = 0
  /\ appStateRef = [m \in Instances |-> "READY"]
  /\ isPlayingRef = [m \in Instances |-> FALSE]
  /\ currentSegmentIndexRef = [m \in Instances |-> -1]
  /\ mediaRecorderRef = [m \in Instances |-> 0]
  /\ recordedChunksRef = [m \in Instances |-> 0]
  /\ runs = <<>>

Init ==
  /\ build \in Builds
  /\ PlaybackIdle
  /\ EditorIdle
  /\ call = NoCall

\* ------------------------------------------------------- user actions ----
\* handleFileUpload and the start of processImage (the upload zone is
\* rendered in IDLE only).
HandleFileUpload ==
  /\ appState = "IDLE"
  /\ uploads < MaxUploads
  /\ Commit(SetAppState([Cur EXCEPT !.imageSrc = TRUE, !.uploads = @ + 1,
                                    !.pendingAnalysis = @ + 1], "ANALYZING"))

\* processImage, local mode, after the analysis: the list is stored and the
\* state set to READY.
ProcessImage(lists) ==
  /\ pendingAnalysis > 0
  /\ \E analyzedSegments \in lists :
       Commit(SetAppState(Rendered([Cur EXCEPT !.segments = analyzedSegments,
                                               !.pendingAnalysis = @ - 1]), "READY"))

ProcessImageDone == ProcessImage(SegmentLists)

\* The Preview button: enabled in READY with no segment being edited,
\* inside the editor. maxRuns caps the number of runs of a behaviour.
PreviewButton(maxRuns) ==
  /\ appState = "READY"
  /\ editingSegmentId = Null
  /\ mounted # 0
  /\ Len(runs) < maxRuns
  /\ \E suspended \in BOOLEAN :
       Commit(PlaySequence(SetAppState(Cur, "PLAYING"), FALSE, suspended, "ok"))

Preview == PreviewButton(MaxRuns)

\* The Export Video button.
ExportButton(maxRuns) ==
  /\ appState = "READY"
  /\ editingSegmentId = Null
  /\ mounted # 0
  /\ Len(runs) < maxRuns
  /\ \E suspended \in BOOLEAN, outcome \in RecorderOutcomes :
       Commit(PlaySequence(SetAppState(Cur, "RECORDING"), TRUE, suspended, outcome))

Export == ExportButton(MaxRuns)

\* handleReset: the Reset button of the editor.
\* VideoCanvas is unmounted with the editor, and its drag state with it.
HandleReset ==
  /\ appState \in EditorStates
  /\ imageSrc
  /\ CommitPlayback(Rendered([Cur EXCEPT !.appState = "IDLE", !.imageSrc = FALSE,
                                          !.segments = <<>>]))
  /\ error' = "null"
  /\ editingSegmentId' = Null
  /\ dragMode' = "NONE"
  /\ dragStart' = "null"
  /\ initialBox' = Null
  /\ UNCHANGED <<useAI, isProcessingAction, now, analysis, ocr, edits, call>>

\* ------------------------------------------- callbacks of playSequence ----
\* await actx.resume() has resolved.
ResumeDone(r) ==
  /\ runs[r].pc = "resume"
  /\ \E outcome \in RecorderOutcomes : Commit(Setup(Cur, r, outcome))

\* await getDisplayMedia(...) has settled (ScreenShare). Past the audio
\* track check the code touches the canvas, which is null once unmounted.
PermissionResult(r) ==
  /\ runs[r].pc = "permission"
  /\ \E outcome \in PermissionOutcomes :
       Commit(IF outcome \in {"denied", "error", "notrack"} THEN SetupFailed(Cur, r, outcome)
              ELSE IF mounted = runs[r].inst THEN CreateRecorder(Cur, r, outcome)
              ELSE SetupFailed(Cur, r, "error"))

\* await decodeAudio(seg.audioBase64) has settled.
DecodeDone(r) ==
  /\ runs[r].pc = "decode"
  /\ Commit(PlayBuffer(Cur, r, Seg(runs[r]).audioBase64))

\* await fetchFreeTTS(seg.text) has resolved: with "" when the fetch failed
\* (fetchFreeTTS catches), else with a payload still to be decoded.
FetchDone(r) ==
  /\ runs[r].pc = "fetch"
  /\ \E fetchedAudio \in {"", "J25"} :
       Commit(IF fetchedAudio = "" THEN WaitLogic(Cur, r)
              ELSE [Cur EXCEPT !.runs[r].pc = "jitdecode"])

\* await decodeAudio(fetchedAudio) has settled.
JitDecodeDone(r) ==
  /\ runs[r].pc = "jitdecode"
  /\ \E payload \in {"J25", "BAD"} : Commit(PlayBuffer(Cur, r, payload))

\* u.onend and u.onerror: both resolve the promise of the speech step.
AfterSpeech(w, r, event) == WaitLogic(w, r)

\* The utterance has ended ("end") or errored ("error"; also what
\* speechSynthesis.cancel() does to it).
SpeechDone(r) ==
  /\ runs[r].pc = "speak"
  /\ \E event \in {"end", "error"} : Commit(AfterSpeech(Cur, r, event))

\* A buffer source has played to its end.
SourceEnded(r) ==
  /\ \E k \in runs[r].sounding : Commit([Cur EXCEPT !.runs[r].sounding = @ \ {k}])

\* The timer of the wait logic fires. A source started together with a
\* timer at least as long as its buffer has ended by then.
WaitDone(r) ==
  /\ runs[r].pc = "wait"
  /\ ~(runs[r].i \in runs[r].sounding /\ runs[r].audioDuration <= runs[r].timer)
  /\ Commit([Cur EXCEPT !.runs[r].pc = "pause", !.runs[r].timer = InterSegmentPause(build)])

\* The inter-segment pause is over: i++ and the next iteration.
PauseDone(r) ==
  /\ runs[r].pc = "pause"
  /\ Commit(LoopTop([Cur EXCEPT !.runs[r].i = @ + 1, !.runs[r].timer = 0], r))

\* The 500 ms before the recording is cut are over (JIT).
TailDone(r) ==
  /\ runs[r].pc = "tail"
  /\ Commit(StopRecorder(Cur, r, FALSE))

\* ondataavailable with a non-empty blob, every 100 ms (ScreenShare starts
\* the recorder with a timeslice).
DataAvailable(k) ==
  /\ build = "ScreenShare"
  /\ runs[k].recorder = "recording"
  /\ recordedChunksRef[runs[k].inst] < MaxChunks
  /\ Commit([Cur EXCEPT !.recordedChunksRef[runs[k].inst] = @ + 1])

\* The recorder has stopped: the last dataavailable (pushed when not empty)
\* and onstop, which downloads the chunks and sets the state to READY.
RecorderStopped(k) ==
  /\ runs[k].recorder = "stopping"
  /\ \E nonEmpty \in BOOLEAN :
       /\ nonEmpty => recordedChunksRef[runs[k].inst] < MaxChunks
       /\ LET m == runs[k].inst
              n == recordedChunksRef[m] + (IF nonEmpty THEN 1 ELSE 0)
          IN Commit(SetAppState([Cur EXCEPT !.recordedChunksRef[m] = n,
                                            !.runs[k].recorder = "inactive",
                                            !.runs[k].download = n], "READY"))

RunStep(r) ==
  \/ ResumeDone(r)
  \/ PermissionResult(r)
  \/ DecodeDone(r)
  \/ FetchDone(r)
  \/ JitDecodeDone(r)
  \/ SpeechDone(r)
  \/ SourceEnded(r)
  \/ WaitDone(r)
  \/ PauseDone(r)
  \/ TailDone(r)
  \/ RecorderStopped(r)

Next ==
  \/ HandleFileUpload
  \/ ProcessImageDone
  \/ Preview
  \/ Export
  \/ HandleReset
  \/ \E r \in DOMAIN runs : RunStep(r)
  \/ \E r \in DOMAIN runs : DataAvailable(r)

Spec == Init /\ [][Next]_vars

\* The JIT version alone.
InitJIT == Init /\ build = "JIT"

StepJIT(r) ==
  \/ ResumeDone(r)
  \/ DecodeDone(r)
  \/ FetchDone(r)
  \/ JitDecodeDone(r)
  \/ SpeechDone(r)
  \/ SourceEnded(r)
  \/ WaitDone(r)
  \/ PauseDone(r)
  \/ TailDone(r)
  \/ RecorderStopped(r)

NextJIT ==
  \/ HandleFileUpload
  \/ ProcessImageDone
  \/ Preview
  \/ Export
  \/ HandleReset
  \/ \E r \in DOMAIN runs : StepJIT(r)

SpecJIT == InitJIT /\ [][NextJIT]_vars

\* The ScreenShare version alone.
InitScreenShare == Init /\ build = "ScreenShare"

StepScreenShare(r) ==
  \/ ResumeDone(r)
  \/ PermissionResult(r)
  \/ DecodeDone(r)
  \/ SpeechDone(r)
  \/ SourceEnded(r)
  \/ WaitDone(r)
  \/ PauseDone(r)
  \/ RecorderStopped(r)

NextScreenShare ==
  \/ HandleFileUpload
  \/ ProcessImageDone
  \/ Preview
  \/ Export
  \/ HandleReset
  \/ \E r \in DOMAIN runs : StepScreenShare(r)
  \/ \E r \in DOMAIN runs : DataAvailable(r)

SpecScreenShare == InitScreenShare /\ [][NextScreenShare]_vars

\* Longer sessions of the JIT version: one more run, over two lists (an
\* mp3 segment alone; a text segment followed by a visual one).
SessionLists == {<<PoolById(2)>>, <<PoolById(3), PoolById(4)>>}

ProcessImageDoneSession == ProcessImage(SessionLists)

PreviewSession == PreviewButton(MaxRunsSession)

ExportSession == ExportButton(MaxRunsSession)

NextSession ==
  \/ HandleFileUpload
  \/ ProcessImageDoneSession
  \/ PreviewSession
  \/ ExportSession
  \/ HandleReset
  \/ \E r \in DOMAIN runs : StepJIT(r)

\* Every timer fires, every decode, fetch and utterance settles, every
\* stopped recorder fires its stop event. Nothing is assumed of the user.
Fairness ==
  \A r \in 1..MaxRunsSession : WF_vars(r \in DOMAIN runs /\ StepJIT(r))

LiveSession == InitJIT /\ [][NextSession]_vars /\ Fairness

TypeOK ==
  /\ appState \in AppStates
  /\ mounted \in 0..MaxUploads
  /\ Len(runs) <= MaxRunsSession


\* ------------------------------------------------------------- claims ----
InLoop(run) == run.pc \in {"decode", "fetch", "jitdecode", "speak", "wait", "pause"}

BeforeLoop(run) == run.pc \in {"start", "resume", "permission"}

Visited(rs, r) == IF r \in DOMAIN rs THEN rs[r].visited ELSE 0

\* The list a run iterates over; for a run created by this very step, the
\* list of App at the call.
SegmentsOf(r) == IF r \in DOMAIN runs THEN runs[r].segments ELSE segments

\* C1: a run sets the reveal index to 0, 1, ..., n-1 in that order, each
\* once (the k-th write of a run writes k-1); a run that ends without having
\* been interrupted has written all n of them; and between two steps inside
\* the loop of an uninterrupted run the number of segments drawFrame draws
\* revealed does not decrease.
C1_RevealOrder ==
  [][\A r \in DOMAIN runs' :
       /\ runs'[r].visited # Visited(runs, r) =>
            /\ runs'[r].visited = Visited(runs, r) + 1
            /\ currentSegmentIndexRef'[runs'[r].inst] = Visited(runs, r)
       /\ ( /\ r \in DOMAIN runs => runs[r].pc # "done"
            /\ runs'[r].pc = "done"
            /\ runs'[r].outcome \in {"completed", "crashed"}
            /\ ~runs'[r].interrupted )
            => runs'[r].visited = Len(SegmentsOf(r))
       /\ ( /\ r \in DOMAIN runs
            /\ InLoop(runs[r])
            /\ InLoop(runs'[r])
            /\ ~runs'[r].interrupted )
            => Revealed(r)' >= Revealed(r)
    ]_vars

\* C2: when a run sets the reveal index to the next segment, the audio step
\* of the segment before has resolved: the run is not suspended at a decode,
\* a fetch or an utterance, and no buffer source of an earlier segment of
\* the run is still playing.
C2_AudioResolved ==
  [][\A r \in DOMAIN runs' :
       runs'[r].visited # Visited(runs, r) =>
         /\ r \in DOMAIN runs => (BeforeLoop(runs[r]) \/ runs[r].pc = "pause")
         /\ runs'[r].sounding \subseteq {runs'[r].i}
    ]_vars

\* A run is at its second segment after a first one whose buffer played.
C2_Witness ==
  \E r \in DOMAIN runs :
    /\ InLoop(runs[r])
    /\ runs[r].i >= 1
    /\ Decodable(runs[r].segments[runs[r].i].audioBase64)
    /\ runs[r].sounding \subseteq {runs[r].i}

\* The precedence the claim states.
ClaimedSource(isRecording, seg) ==
  IF seg.audioBase64 # "" THEN "buffer"
  ELSE IF seg.text = "" THEN "none"
  ELSE IF isRecording THEN "fetch" ELSE "speech"

C4_SilentWait ==
  \A r \in DOMAIN runs :
    (runs[r].pc = "wait" /\ Seg(runs[r]).text = "" /\ Seg(runs[r]).audioBase64 = "")
      => runs[r].timer = Seg(runs[r]).duration

\* C5 (JIT version): after an attached payload failed to decode the run
\* waits the segment's duration.
C5_DecodeErrorWait ==
  \A r \in DOMAIN runs :
    (runs[r].pc = "wait" /\ Seg(runs[r]).audioBase64 # "" /\ runs[r].audioDuration = 0)
      => runs[r].timer = Seg(runs[r]).duration

\* The audio step of a recording run's text segment ended without a buffer.
FetchFailed(run) ==
  /\ run.isRecording
  /\ run.src = "fetch"
  /\ run.audioDuration = 0

\* C6 (JIT version): when the just-in-time fetch of a text segment fails
\* (an empty result, or a payload that does not decode) the run is not
\* ended: it waits the segment's duration, goes on to the inter-segment
\* pause, and after the pause, unless it has been interrupted, visits the
\* next segment when there is one.
C6_FetchFailureWait ==
  [][\A r \in DOMAIN runs :
       /\ ( /\ runs[r].pc \in {"fetch", "jitdecode"}
            /\ runs'[r].pc \notin {"fetch", "jitdecode"}
            /\ runs'[r].audioDuration = 0 )
            => /\ runs'[r].pc = "wait"
               /\ runs'[r].timer = Seg(runs[r]).duration
               /\ runs'[r].i = runs[r].i
       /\ ( /\ runs[r].pc = "wait"
            /\ FetchFailed(runs[r])
            /\ runs'[r].pc # "wait" )
            => /\ runs'[r].pc = "pause"
               /\ runs'[r].i = runs[r].i
       /\ ( /\ runs[r].pc = "pause"
            /\ FetchFailed(runs[r])
            /\ runs'[r].pc # "pause"
            /\ ~runs'[r].interrupted
            /\ runs[r].i + 1 < Len(runs[r].segments) )
            => /\ runs'[r].visited = runs[r].visited + 1
               /\ runs'[r].i = runs[r].i + 1
    ]_vars

\* C7 (ScreenShare version): once the permission request of the latest
\* Export has been denied and the state is READY, the chunk array is empty
\* and the user has been told.
C7_DeniedLeavesNoChunks ==
  \A r \in DOMAIN runs :
    (r = Len(runs) /\ runs[r].outcome = "denied" /\ appState = "READY")
      => /\ recordedChunksRef[runs[r].inst] = 0
         /\ runs[r].alerted

\* C8: a run whose recording setup failed has visited no segment, started
\* no audio, and has told the user.
C8_SetupFailureReported ==
  \A r \in DOMAIN runs :
    runs[r].outcome \in {"denied", "notrack", "ctor", "start"}
      => /\ runs[r].visited = 0
         /\ runs[r].sounding = {}
         /\ runs[r].alerted

\* C9 (JIT version): a run that has been interrupted (the app state left
\* PLAYING/RECORDING while it was in progress) sets the reveal index to no
\* further segment.
C9_CancelStops ==
  [][\A r \in DOMAIN runs :
       runs[r].interrupted => runs'[r].visited = runs[r].visited]_vars

\* Run r has been started and has not ended, or the recorder it stopped has
\* not delivered its stop event yet.
InProgress(r) ==
  /\ r \in DOMAIN runs
  /\ (runs[r].pc # "done" \/ runs[r].recorder = "stopping")

MaxTextLen == 5

DefaultDuration == 10

Lower == {"a","b","c","d","e","f","g","h","i","j","k","l","m",
          "n","o","p","q","r","s","t","u","v","w","x","y","z"}

Upper == {"A","B","C","D","E","F","G","H","I","J","K","L","M",
          "N","O","P","Q","R","S","T","U","V","W","X","Y","Z"}

Digits == {"0","1","2","3","4","5","6","7","8","9"}

\* The class [a-zA-Z0-9] of line 23.
AlphaNumeric == Lower \cup Upper \cup Digits

\* The class [aeiouAEIOU] of line 27.
Vowels == {"a","e","i","o","u","A","E","I","O","U"}

\* The class \s, as far as the texts of the model go.
WhiteSpace == {" ", "\n", "\t"}

\* String.prototype.trim.
RECURSIVE TrimStart(_)
TrimStart(t) == IF t # <<>> /\ Head(t) \in WhiteSpace THEN TrimStart(Tail(t)) ELSE t

RECURSIVE TrimEnd(_)
TrimEnd(t) ==
  IF t # <<>> /\ t[Len(t)] \in WhiteSpace THEN TrimEnd(SubSeq(t, 1, Len(t) - 1)) ELSE t

Trim(t) == TrimEnd(TrimStart(t))

IsAlphaNumeric(c) == c \in AlphaNumeric

IsVowel(c) == c \in Vowels

\* isTextCoherent with the vowel check applied to short strings too.
isTextCoherentVowelAlways(text) ==
  IF text = <<>> \/ Len(Trim(text)) < 2 THEN FALSE
  ELSE LET clean == Trim(text)
           alphaNumeric == Len(SelectSeq(clean, IsAlphaNumeric))
           vowels == SelectSeq(clean, IsVowel)
       IN IF alphaNumeric * 2 < Len(clean) THEN FALSE
          ELSE IF vowels = <<>> THEN FALSE
          ELSE TRUE

\* isTextCoherent (lines 18-31). alphaNumeric < clean.length * 0.5 is
\* compared after doubling both sides.
isTextCoherent(text) ==
  IF text = <<>> \/ Len(Trim(text)) < 2 THEN FALSE
  ELSE LET clean == Trim(text)
           alphaNumeric == Len(SelectSeq(clean, IsAlphaNumeric))
           vowels == SelectSeq(clean, IsVowel)
       IN IF alphaNumeric * 2 < Len(clean) THEN FALSE
          ELSE IF vowels = <<>> /\ Len(clean) > 4 THEN FALSE
          ELSE TRUE

\* text.split(/\s+/).length for a trimmed text: the number of maximal runs
\* of non-blank characters; the empty string splits into one empty word.
SplitLength(clean) ==
  IF clean = <<>> THEN 1
  ELSE Cardinality({k \in 1..Len(clean) :
                      /\ clean[k] \notin WhiteSpace
                      /\ (k = 1 \/ clean[k - 1] \in WhiteSpace)})

\* Math.ceil(a / b) and Math.round(a / b) for a >= 0, b > 0.
CeilDiv(a, b) == (a + b - 1) \div b

RoundDiv(a, b) == (2 * a + b) \div (2 * b)

\* calculateSegmentDuration rounding to the nearest half second.
calculateSegmentDurationRound(text) ==
  IF text = <<>> \/ ~isTextCoherent(text) THEN DefaultDuration
  ELSE LET wordCount == SplitLength(Trim(text))
           readingTime == wordCount * 3
           duration == readingTime + 3
       IN Max(10, RoundDiv(duration * 2, 10) * 5)

\* calculateSegmentDuration (lines 33-46). In tenths: 0.3 s is 3, and
\* Math.ceil(duration * 2) / 2 is ceil(2 * duration / 10) half seconds.
calculateSegmentDuration(text) ==
  IF text = <<>> \/ ~isTextCoherent(text) THEN DefaultDuration
  ELSE LET wordCount == SplitLength(Trim(text))
           readingTime == wordCount * 3
           duration == readingTime + 3
       IN Max(10, CeilDiv(duration * 2, 10) * 5)

\* The argument texts: every text of at most MaxTextLen characters over a
\* vowel, a consonant, a digit, a symbol and a blank, and four longer ones.
TextChars == {"a", "k", "7", "!", " "}

HelloWorld == <<"H","e","l","l","o"," ","w","o","r","l","d">>

Xkqjrst == <<"x","k","q","j","r","s","t">>

Marks == <<"!","!","?","?">>

OneTwoThree == <<"o","n","e"," ","t","w","o"," ","t","h","r","e","e">>

Texts ==
  UNION {[1..n -> TextChars] : n \in 0..MaxTextLen}
    \cup {HelloWorld, Xkqjrst, Marks, OneTwoThree}

\* A call of one of the two exported helpers on a text.
InitText ==
  /\ build = "JIT"
  /\ PlaybackIdle
  /\ EditorIdle
  /\ call \in {[fn |-> "text", arg |-> t] : t \in Texts}

IsTextCoherentCall ==
  /\ call.fn = "text"
  /\ call' = [fn |-> "isTextCoherent", arg |-> call.arg, ret |-> isTextCoherent(call.arg)]
  /\ UNCHANGED <<pvars, error, useAI, editingSegmentId, isProcessingAction, dragMode,
                 dragStart, initialBox, now, analysis, ocr, edits>>

CalculateSegmentDurationCall ==
  /\ call.fn = "text"
  /\ call' = [fn |-> "calculateSegmentDuration", arg |-> call.arg,
              ret |-> calculateSegmentDuration(call.arg)]
  /\ UNCHANGED <<pvars, error, useAI, editingSegmentId, isProcessingAction, dragMode,
                 dragStart, initialBox, now, analysis, ocr, edits>>

NextText == IsTextCoherentCall \/ CalculateSegmentDurationCall

SpecText == InitText /\ [][NextText]_vars

\* C14: calculateSegmentDuration returns 1.0 s for an empty or incoherent text
\* and otherwise max(1.0, ceil((wordCount * 0.3 + 0.3) * 2) / 2); "one two
\* three" gives 1.5 s; every result is a multiple of 0.5 s and at least 1.0 s.
WordsOf(t) ==
  LET c == Trim(t)
  IN Cardinality({k \in 1..Len(c) : c[k] # " " /\ (k = 1 \/ c[k - 1] = " ")})

C15_CoherenceRules ==
  call.fn = "isTextCoherent" =>
    LET c == Trim(call.arg)
        n == Len(c)
        rule1 == n >= 2
        rule2 == 2 * Cardinality({k \in 1..n : c[k] \in AlphaNumeric}) >= n
        rule3 == n > 4 => \E k \in 1..n : c[k] \in Vowels
    IN /\ call.ret = (rule1 /\ rule2 /\ rule3)
       /\ call.arg = Xkqjrst => call.ret = FALSE
       /\ call.arg = HelloWorld => call.ret = TRUE
       /\ call.arg = Marks => call.ret = FALSE

C15_Witness ==
  /\ call.fn = "isTextCoherent"
  /\ call.arg = Xkqjrst
  /\ call.ret = FALSE


\* ======================================================= panel detection ====
\* localAnalysisService.ts, detectPanels and analyzeLocalImage.
DARK_THRESHOLD == 60

MIN_PANEL_SIZE == 50

\* An image is a grid of uniformly grey cells: cols and rows hold the widths
\* and heights of its stripes in pixels, grey the level (r = g = b) of each
\* cell. Every layout is 125 pixels long, so that a pixel position times
\* 1000 / 125 is a whole number.
Layouts == {<<125>>, <<60, 5, 60>>, <<5, 40, 80>>}

Greys == {0, 255}

Images ==
  UNION { { [cols |-> c, rows |-> r, grey |-> g] : g \in [1..Len(r) -> [1..Len(c) -> Greys]] } :
            c \in Layouts, r \in Layouts }

RECURSIVE Sum(_)
Sum(q) == IF q = <<>> THEN 0 ELSE Head(q) + Sum(Tail(q))

\* The stripe of a layout that holds pixel position p (from 0).
StripeAt(layout, p) ==
  CHOOSE k \in 1..Len(layout) :
    /\ Sum(SubSeq(layout, 1, k - 1)) <= p
    /\ p < Sum(SubSeq(layout, 1, k))

\* The first pixel position of stripe k of a layout.
StripeStart(layout, k) == Sum(SubSeq(layout, 1, k - 1))

\* getImageData (lines 50-58). The pixel data stay run-length encoded: the
\* luma 0.299 r + 0.587 g + 0.114 b of pixel (x, y) is the grey level of
\* the cell that holds it.
getImageData(img) ==
  [width |-> Sum(img.cols), height |-> Sum(img.rows), data |-> img]

\* darkCount / n > LINE_DENSITY_THRESHOLD (0.6), in whole numbers.
Dense(darkCount, n) == darkCount * 10 > 6 * n

\* isRowDivider (lines 61-72): the pixels x of row y with luma below the
\* threshold are counted stripe by stripe.
isRowDivider(data, width, y) ==
  LET j == StripeAt(data.rows, y)
      darkCount == Sum([k \in 1..Len(data.cols) |->
                          IF data.grey[j][k] < DARK_THRESHOLD THEN data.cols[k] ELSE 0])
  IN Dense(darkCount, width)

\* The number of pixel rows of stripe j within startY..endY-1.
Overlap(rows, j, startY, endY) ==
  LET lo == Max(StripeStart(rows, j), startY)
      hi == IF StripeStart(rows, j + 1) <= endY THEN StripeStart(rows, j + 1) ELSE endY
  IN Max(0, hi - lo)

\* isColDivider (lines 75-89): the pixels y of column x within the slice.
isColDivider(data, width, x, startY, endY) ==
  LET height == endY - startY
      k == StripeAt(data.cols, x)
      darkCount == Sum([j \in 1..Len(data.rows) |->
                          IF data.grey[j][k] < DARK_THRESHOLD
                            THEN Overlap(data.rows, j, startY, endY) ELSE 0])
  IN IF height <= 0 THEN FALSE ELSE Dense(darkCount, height)

\* The scan of lines 96-109 (rows) and 130-144 (columns): the maximal runs
\* of divider lines among positions 0..n-1, in increasing order. A run
\* starts where isLine turns true (lineStart) and is pushed where it turns
\* false again, or after the loop when it reaches position n.
Cuts(isLine, n) ==
  LET starts == {p \in 0..(n - 1) : isLine[p] /\ (p = 0 \/ ~isLine[p - 1])}
      stop(p) == IF \E q \in p..(n - 1) : ~isLine[q]
                   THEN CHOOSE q \in p..(n - 1) :
                          ~isLine[q] /\ \A u \in p..(q - 1) : isLine[u]
                 ELSE n
      nth(k) == CHOOSE p \in starts : Cardinality({q \in starts : q < p}) = k - 1
  IN [k \in 1..Cardinality(starts) |-> [at |-> nth(k), size |-> stop(nth(k)) - nth(k)]]

\* The bands between the cuts listed from the last cut to the first.
BandsReversed(cuts, n) ==
  LET first == IF cuts # <<>> /\ cuts[1].at > 0 THEN <<[at |-> 0, size |-> cuts[1].at]>>
               ELSE IF cuts = <<>> THEN <<[at |-> 0, size |-> n]>>
               ELSE <<>>
      after(k) == LET cut == cuts[k]
                      next == IF k < Len(cuts) THEN cuts[k + 1].at ELSE n
                  IN [at |-> cut.at + cut.size, size |-> next - (cut.at + cut.size)]
      kept == SelectSeq([k \in 1..Len(cuts) |-> after(k)],
                        LAMBDA b : b.size > MIN_PANEL_SIZE)
  IN [k \in 1..Len(kept) |-> kept[Len(kept) + 1 - k]] \o first

\* Lines 111-125 (rows) and 146-159 (panels of a row): the band before the
\* first cut, or the whole length when there is no cut, then the band after
\* each cut when it is longer than MIN_PANEL_SIZE.
Bands(cuts, n) ==
  LET first == IF cuts # <<>> /\ cuts[1].at > 0 THEN <<[at |-> 0, size |-> cuts[1].at]>>
               ELSE IF cuts = <<>> THEN <<[at |-> 0, size |-> n]>>
               ELSE <<>>
      after(k) == LET cut == cuts[k]
                      next == IF k < Len(cuts) THEN cuts[k + 1].at ELSE n
                  IN [at |-> cut.at + cut.size, size |-> next - (cut.at + cut.size)]
      kept == SelectSeq([k \in 1..Len(cuts) |-> after(k)],
                        LAMBDA b : b.size > MIN_PANEL_SIZE)
  IN first \o kept

RECURSIVE Flatten(_)
Flatten(q) == IF q = <<>> THEN <<>> ELSE Head(q) \o Flatten(Tail(q))

\* The panels pushed by rows.forEach (lines 127-160).
PanelsOf(d) ==
  LET rowCuts == Cuts([y \in 0..(d.height - 1) |-> isRowDivider(d.data, d.width, y)], d.height)
      rows == Bands(rowCuts, d.height)
      panelsOfRow(row) ==
        LET colCuts == Cuts([x \in 0..(d.width - 1) |->
                               isColDivider(d.data, d.width, x, row.at, row.at + row.size)],
                            d.width)
            spans == Bands(colCuts, d.width)
        IN [k \in 1..Len(spans) |->
              [x |-> spans[k].at, y |-> row.at, w |-> spans[k].size, h |-> row.size]]
  IN Flatten([k \in 1..Len(rows) |-> panelsOfRow(rows[k])])

\* detectPanels without the fallback of its last line.
detectPanelsNoFallback(img) == PanelsOf(getImageData(img))

\* detectPanels (lines 91-163).
detectPanels(img) ==
  LET d == getImageData(img)
      panels == PanelsOf(d)
  IN IF Len(panels) > 0 THEN panels
     ELSE <<[x |-> 0, y |-> 0, w |-> d.width, h |-> d.height]>>

\* A call of detectPanels on an image.
DetectPanelsCall ==
  /\ call.fn = "image"
  /\ call' = [fn |-> "detectPanels", arg |-> call.arg, ret |-> detectPanels(call.arg)]
  /\ UNCHANGED <<pvars, error, useAI, editingSegmentId, isProcessingAction, dragMode,
                 dragStart, initialBox, now, analysis, ocr, edits>>

\* ------------------------------------------------------ analyzeLocalImage ----
\* What does not decode as an image (img.onerror fires).
BrokenImage == [cols |-> <<>>, rows |-> <<>>, grey |-> <<>>]

VisualOnly == <<"(","V","i","s","u","a","l"," ","O","n","l","y",")">>

\* What Tesseract.recognize comes to for one crop: a text, or an exception.
Recognized(t) == [throws |-> FALSE, text |-> t]

Thrown == [throws |-> TRUE, text |-> <<>>]

OcrResults == {Recognized(OneTwoThree), Recognized(Marks), Thrown}

\* String.prototype.replace(/\n/g, ' ').
ReplaceNewlines(t) == [k \in 1..Len(t) |-> IF t[k] = "\n" THEN " " ELSE t[k]]

\* (p / size) * 1000 of lines 264-267; exact for the layouts of the model.
PerMille(p, size) == (p * 1000) \div size

\* The segment pushed for panel i (from 0) at lines 254-274; t is the value
\* of Date.now().
LocalSegment(d, r, i, recognized, t) ==
  LET rawText == ReplaceNewlines(Trim(recognized.text))
      isCoherent == isTextCoherent(rawText)
      text == IF isCoherent THEN rawText ELSE <<>>
      duration == calculateSegmentDuration(text)
  IN [id |-> <<"local-seg", i, t>>,
      text |-> IF text # <<>> THEN text ELSE VisualOnly,
      box |-> [xmin |-> PerMille(r.x, d.width), ymin |-> PerMille(r.y, d.height),
               xmax |-> PerMille(r.x + r.w, d.width), ymax |-> PerMille(r.y + r.h, d.height)],
      duration |-> duration]

\* analyzeLocalImage (lines 235-283). rects is what detectPanels(img)
\* returned at line 241, results[k] what the recognition of panel k comes
\* to. The one try block of lines 240-280 holds the whole loop: a
\* recognition that throws rejects the promise.
analyzeLocalImage(base64Image, rects, results, t) ==
  IF base64Image = BrokenImage
    THEN [status |-> "rejected", reason |-> "Failed to load image for local analysis"]
  ELSE IF \E k \in 1..Len(rects) : results[k].throws
    THEN [status |-> "rejected", reason |-> "recognize"]
  ELSE [status |-> "resolved",
        segments |-> [k \in 1..Len(rects) |->
                        LocalSegment(getImageData(base64Image), rects[k], k - 1, results[k], t)]]

\* The panels line 241 finds; none is looked for in what is not an image.
RectsOf(base64Image) ==
  IF base64Image = BrokenImage THEN <<>> ELSE detectPanels(base64Image)

AnalyzeLocalImageCall ==
  /\ call.fn = "image"
  /\ \E rects \in {RectsOf(call.arg)} :
       \E results \in [1..Len(rects) -> OcrResults] :
         call' = [fn |-> "analyzeLocalImage", arg |-> call.arg, rects |-> rects,
                  results |-> results,
                  ret |-> analyzeLocalImage(call.arg, rects, results, now)]
  /\ UNCHANGED <<pvars, error, useAI, editingSegmentId, isProcessingAction, dragMode,
                 dragStart, initialBox, now, analysis, ocr, edits>>

InitPanels ==
  /\ build = "JIT"
  /\ PlaybackIdle
  /\ EditorIdle
  /\ call \in {[fn |-> "image", arg |-> img] : img \in Images \cup {BrokenImage}}

NextPanels == DetectPanelsCall \/ AnalyzeLocalImageCall

SpecPanels == InitPanels /\ [][NextPanels]_vars

\* C16: for an image in which no row and no column is a dark divider,
\* detectPanels returns exactly one panel, the whole image; and detectPanels
\* never returns an empty list.
NoDivider(img) ==
  LET d == getImageData(img)
  IN /\ \A y \in 0..(d.height - 1) : ~isRowDivider(d.data, d.width, y)
     /\ \A x \in 0..(d.width - 1) : ~isColDivider(d.data, d.width, x, 0, d.height)

WholeImage(img) == [x |-> 0, y |-> 0, w |-> Sum(img.cols), h |-> Sum(img.rows)]

C16_WholeImagePanel ==
  call.fn = "detectPanels" =>
    /\ Len(call.ret) >= 1
    /\ NoDivider(call.arg) => call.ret = <<WholeImage(call.arg)>>

C16_Witness ==
  /\ call.fn = "detectPanels"
  /\ NoDivider(call.arg)
  /\ \E j \in DOMAIN call.arg.grey : \E k \in DOMAIN call.arg.grey[j] : call.arg.grey[j][k] = 0
  /\ call.ret = <<WholeImage(call.arg)>>

\* C17: detectPanels lists the panels in row-major order (each panel is
\* followed by one of a lower band, or of the same band further right), and
\* analyzeLocalImage resolves with one segment per panel in that order.
RowMajor(panels) ==
  \A k \in 1..(Len(panels) - 1) :
    \/ panels[k + 1].y > panels[k].y
    \/ panels[k + 1].y = panels[k].y /\ panels[k + 1].x > panels[k].x

C17_ReadingOrder ==
  /\ call.fn = "detectPanels" => RowMajor(call.ret)
  /\ (call.fn = "analyzeLocalImage" /\ call.ret.status = "resolved") =>
       LET panels == call.rects
           segs == call.ret.segments
           width == Sum(call.arg.cols)
           height == Sum(call.arg.rows)
       IN /\ RowMajor(panels)
          /\ Len(segs) = Len(panels)
          /\ \A k \in 1..Len(segs) :
               /\ segs[k].box.xmin * width = panels[k].x * 1000
               /\ segs[k].box.ymin * height = panels[k].y * 1000
               /\ segs[k].box.xmax * width = (panels[k].x + panels[k].w) * 1000
               /\ segs[k].box.ymax * height = (panels[k].y + panels[k].h) * 1000

C17_Witness ==
  /\ call.fn = "analyzeLocalImage"
  /\ call.ret.status = "resolved"
  /\ Len(call.ret.segments) = 4
  /\ call.ret.segments[2].box.xmin > 0
  /\ call.ret.segments[3].box.ymin > 0

\* C18: when the text extraction of one panel throws, analyzeLocalImage still
\* resolves with one segment per panel, in panel order; the failed panel's
\* segment has an empty or placeholder text and the 2.0 s default duration.
C18_PanelFailureIsolated ==
  (call.fn = "analyzeLocalImage" /\ call.arg # BrokenImage) =>
    LET panels == call.rects
    IN /\ call.ret.status = "resolved"
       /\ Len(call.ret.segments) = Len(panels)
       /\ \A k \in 1..Len(panels) :
            call.results[k].throws =>
              /\ call.ret.segments[k].text \in {<<>>, VisualOnly}
              /\ call.ret.segments[k].duration = 20


\* ======================================================== processImage ====
\* App.processImage (part_002:109-151) with the two services it awaits. The
\* VideoCanvas instances are not followed here: mounted stays 0.
MaxAiSegs == 2

\* The images of the uploads: one white panel, two white panels either side
\* of a black line, and a file that does not decode.
PlainImage == [cols |-> <<125>>, rows |-> <<125>>, grey |-> <<(<<255>>)>>]

SplitImage == [cols |-> <<60, 5, 60>>, rows |-> <<125>>, grey |-> <<(<<255, 0, 255>>)>>]

AppImages == {PlainImage, SplitImage, BrokenImage}

\* calculateDuration of geminiService.ts (lines 13-19).
calculateDuration(text) ==
  IF text = <<>> \/ Len(text) < 2 THEN 10
  ELSE LET wordCount == SplitLength(Trim(text))
           readingTime == wordCount * 3
           duration == readingTime + 3
       IN Max(10, CeilDiv(duration * 2, 10) * 5)

\* text.replace(/\[.*?\]/g, ""): every "[", up to the nearest "]" after it,
\* is removed; a "[" with no "]" after it stays.
RECURSIVE StripBrackets(_)
StripBrackets(t) ==
  IF t = <<>> THEN <<>>
  ELSE IF Head(t) = "[" /\ \E k \in 2..Len(t) : t[k] = "]"
    THEN LET close == CHOOSE k \in 2..Len(t) : t[k] = "]" /\ \A u \in 2..(k - 1) : t[u] # "]"
         IN StripBrackets(SubSeq(t, close + 1, Len(t)))
  ELSE <<Head(t)>> \o StripBrackets(Tail(t))

Reacts == <<"[","x","]">>

\* What the model answers (parsed.segments): up to MaxAiSegs items, each a
\* text and a box.
AiItems == {[text |-> t, box |-> [xmin |-> 100, ymin |-> 100, xmax |-> 900, ymax |-> 500]] :
              t \in {HelloWorld, Reacts}}

AiResponses == UNION {[1..n -> AiItems] : n \in 0..MaxAiSegs}

\* analyzeMemeImage (geminiService.ts:79-89) once the answer is parsed; t is
\* the value of Date.now().
analyzeMemeImage(parsed, t) ==
  [k \in 1..Len(parsed) |->
     [id |-> <<"seg", k - 1, t>>, text |-> parsed[k].text, box |-> parsed[k].box,
      duration |-> calculateDuration(parsed[k].text)]]

\* generateSpeechForSegment (geminiService.ts:96-134): "empty" when nothing
\* is left to say (line 104), else the audio of the answer or an exception.
SpeechOutcomes(text) ==
  IF Trim(StripBrackets(text)) = <<>> THEN {"empty"} ELSE {"audio", "throw"}

\* One item of the map of lines 136-144, settled as outcome.
WithAudio(seg, outcome) ==
  CASE outcome = "audio" ->
         [id |-> seg.id, text |-> seg.text, box |-> seg.box, duration |-> seg.duration,
          audioBase64 |-> "A30", audioType |-> "pcm"]
    [] outcome = "empty" ->
         [id |-> seg.id, text |-> seg.text, box |-> seg.box, duration |-> seg.duration,
          audioBase64 |-> "", audioType |-> "pcm"]
    [] OTHER -> seg

\* Promise.all failing as soon as one item fails.
NarrationAllOrNothing(analyzed, results) ==
  IF \E k \in 1..Len(analyzed) : results[k] = "throw"
    THEN [ok |-> FALSE, message |-> "No audio data received"]
  ELSE [ok |-> TRUE, segments |-> [k \in 1..Len(analyzed) |-> WithAudio(analyzed[k], results[k])]]

\* Promise.all over the map of lines 136-144: each item catches its own
\* exception, so the promise is fulfilled with one segment per item.
Narration(analyzed, results) ==
  [ok |-> TRUE, segments |-> [k \in 1..Len(analyzed) |-> WithAudio(analyzed[k], results[k])]]

HasAudio(seg) == "audioBase64" \in DOMAIN seg /\ seg.audioBase64 # ""

\* The segment of lines 122-127.
ManualSegment(t) ==
  [id |-> <<"manual-init", t>>,
   text |-> <<"M","A","N","U","A","L"," ","M","O","D","E"," ","/","/"," ","E","D","I","T"," ","N","O","W">>,
   box |-> [xmin |-> 100, ymin |-> 100, xmax |-> 900, ymax |-> 900],
   duration |-> 30]

\* setUseAI(!useAI): the toggle of the upload page.
ToggleAI ==
  /\ appState = "IDLE"
  /\ useAI' = ~useAI
  /\ UNCHANGED <<pvars, error, editingSegmentId, isProcessingAction, dragMode, dragStart,
                 initialBox, now, analysis, ocr, edits, call>>

\* handleFileUpload and processImage up to its first await (lines 96-116,
\* 134). A finished call stays in analysis, as a record of what it met.
UploadFile(images, maxUploads) ==
  /\ appState = "IDLE"
  /\ uploads < maxUploads
  /\ analysis.stage \in {"none", "done"}
  /\ \E img \in images :
       analysis' = [stage |-> "analyze", mode |-> IF useAI THEN "ai" ELSE "local", image |-> img]
  /\ imageSrc' = TRUE
  /\ error' = "null"
  /\ appState' = "ANALYZING"
  /\ uploads' = uploads + 1
  /\ UNCHANGED <<build, segments, pendingAnalysis, mounted, mounts, appStateRef, isPlayingRef,
                 currentSegmentIndexRef, mediaRecorderRef, recordedChunksRef, runs>>
  /\ UNCHANGED <<useAI, editingSegmentId, isProcessingAction, dragMode, dragStart,
                 initialBox, now, ocr, edits, call>>

Upload == UploadFile(AppImages, MaxUploads)

\* await analyzeLocalImage(rawBase64) has settled (lines 116-129).
LocalAnalysisSettled ==
  /\ analysis.stage = "analyze"
  /\ analysis.mode = "local"
  /\ now' = now + 1
  /\ \E rects \in {RectsOf(analysis.image)} :
       \E results \in [1..Len(rects) -> OcrResults] :
         LET r == analyzeLocalImage(analysis.image, rects, results, now + 1)
         IN /\ analysis' = [stage |-> "done", mode |-> "local", image |-> analysis.image,
                            results |-> results]
            /\ IF r.status = "resolved"
                 THEN segments' = r.segments /\ error' = error
               ELSE segments' = <<ManualSegment(now + 1)>> /\ error' = "Local analysis failed."
  /\ appState' = "READY"
  /\ UNCHANGED <<build, imageSrc, uploads, pendingAnalysis, mounted, mounts, appStateRef,
                 isPlayingRef, currentSegmentIndexRef, mediaRecorderRef, recordedChunksRef, runs>>
  /\ UNCHANGED <<useAI, editingSegmentId, isProcessingAction, dragMode, dragStart,
                 initialBox, ocr, edits, call>>

\* The end of the batch (lines 145-150), once every item has settled.
NarrationSettled(analyzed, results) ==
  LET r == Narration(analyzed, results)
  IN /\ analysis' = [stage |-> "done", mode |-> "ai", image |-> analysis.image,
                     segments |-> analyzed, results |-> results]
     /\ IF r.ok
          THEN segments' = r.segments /\ appState' = "READY" /\ error' = error
        ELSE segments' = segments /\ appState' = "IDLE" /\ error' = r.message

\* await analyzeMemeImage(rawBase64) has settled (lines 134-136, 147-150):
\* it throws, or it answers and the narration of every segment is asked
\* for. What does not decode is refused by the service.
MemeAnalysisSettled ==
  /\ analysis.stage = "analyze"
  /\ analysis.mode = "ai"
  /\ now' = now + 1
  /\ \/ /\ analysis' = [stage |-> "done", mode |-> "ai", image |-> analysis.image,
                        segments |-> <<>>, results |-> <<>>]
        /\ error' = "Failed to analyze meme."
        /\ appState' = "IDLE"
        /\ segments' = segments
     \/ /\ analysis.image # BrokenImage
        /\ \E parsed \in AiResponses :
             LET analyzedSegments == analyzeMemeImage(parsed, now + 1)
             IN IF analyzedSegments = <<>>
                  THEN NarrationSettled(<<>>, <<>>)
                ELSE /\ analysis' = [stage |-> "tts", mode |-> "ai", image |-> analysis.image,
                                     segments |-> analyzedSegments,
                                     results |-> [k \in 1..Len(analyzedSegments) |-> "pending"]]
                     /\ appState' = "GENERATING_AUDIO"
                     /\ segments' = segments
                     /\ error' = error
  /\ UNCHANGED <<build, imageSrc, uploads, pendingAnalysis, mounted, mounts, appStateRef,
                 isPlayingRef, currentSegmentIndexRef, mediaRecorderRef, recordedChunksRef, runs>>
  /\ UNCHANGED <<useAI, editingSegmentId, isProcessingAction, dragMode, dragStart,
                 initialBox, ocr, edits, call>>

\* generateSpeechForSegment has settled for item k; the last one to settle
\* fulfils Promise.all and processImage goes on to its end.
SpeechSettled(k) ==
  /\ analysis.stage = "tts"
  /\ k \in DOMAIN analysis.results
  /\ analysis.results[k] = "pending"
  /\ now' = now + 1
  /\ \E outcome \in SpeechOutcomes(analysis.segments[k].text) :
       LET results == [analysis.results EXCEPT ![k] = outcome]
       IN IF \E j \in DOMAIN results : results[j] = "pending"
            THEN /\ analysis' = [analysis EXCEPT !.results = results]
                 /\ UNCHANGED <<appState, segments, error>>
          ELSE NarrationSettled(analysis.segments, results)
  /\ UNCHANGED <<build, imageSrc, uploads, pendingAnalysis, mounted, mounts, appStateRef,
                 isPlayingRef, currentSegmentIndexRef, mediaRecorderRef, recordedChunksRef, runs>>
  /\ UNCHANGED <<useAI, editingSegmentId, isProcessingAction, dragMode, dragStart,
                 initialBox, ocr, edits, call>>

InitApp ==
  /\ build = "JIT"
  /\ PlaybackIdle
  /\ EditorIdle
  /\ call = NoCall

NextAnalysis ==
  \/ ToggleAI
  \/ Upload
  \/ LocalAnalysisSettled
  \/ MemeAnalysisSettled
  \/ \E k \in 1..MaxAiSegs : SpeechSettled(k)
  \/ HandleReset

SpecAnalysis == InitApp /\ [][NextAnalysis]_vars

\* C19: when the image cannot be decoded, the segmentation is aborted, the
\* failure is reported, and the app is back in the pre-upload state (IDLE,
\* no segments), in local mode as in AI mode.
C19_DecodeFailureResets ==
  [][(analysis.stage = "analyze" /\ analysis.image = BrokenImage /\ analysis'.stage = "done")
       => (appState' = "IDLE" /\ segments' = <<>> /\ error' # "null")]_vars

\* C20: in the batch narration a failure or an empty result for one segment
\* does not fail the batch: that segment is kept without audio, the others
\* keep their own result, count and order are unchanged, and the state
\* becomes READY.
C20_BatchNeverFails ==
  [][(analysis.stage = "tts" /\ analysis'.stage = "done")
       => LET analyzed == analysis.segments
              results == analysis'.results
          IN /\ appState' = "READY"
             /\ Len(segments') = Len(analyzed)
             /\ \A k \in 1..Len(analyzed) :
                  /\ segments'[k].id = analyzed[k].id
                  /\ segments'[k].text = analyzed[k].text
                  /\ segments'[k].box = analyzed[k].box
                  /\ segments'[k].duration = analyzed[k].duration
                  /\ results[k] \in {"throw", "empty"} => ~HasAudio(segments'[k])
                  /\ results[k] = "audio" => HasAudio(segments'[k])]_vars

C20_Witness ==
  /\ analysis.stage = "done"
  /\ analysis.mode = "ai"
  /\ Len(analysis.results) = 2
  /\ analysis.results[1] = "throw"
  /\ analysis.results[2] = "audio"
  /\ appState = "READY"
  /\ Len(segments) = 2
  /\ ~HasAudio(segments[1])
  /\ HasAudio(segments[2])


\* ============================================================== editor ====
\* The segment handlers of App (part_002:161-230), the box sliders of the
\* earlier App (part_003:250-279) and the mouse handlers of VideoCanvas
\* (part_004:736-830).
MaxEditorSegs == 2

MaxEdits == 3

MaxEditorUploads == 1

\* An upload into the editor: the one-panel image, or a file that does not
\* decode.
EditorImages == {PlainImage, BrokenImage}

UploadToEdit == UploadFile(EditorImages, MaxEditorUploads)

\* The editor is rendered (part_002:340).
EditorShown == appState \in EditorStates /\ imageSrc

Ids(q) == {q[k].id : k \in DOMAIN q}

Clamp(v) == Max(0, IF v <= 1000 THEN v ELSE 1000)

Min(a, b) == IF a <= b THEN a ELSE b

\* setSegments(prev => prev.map(s => s.id === id ? F(s) : s)).
MapSegment(q, id, F(_)) == [k \in DOMAIN q |-> IF q[k].id = id THEN F(q[k]) ELSE q[k]]

\* A card is clicked: setEditingSegmentId(seg.id) (line 458).
SelectSegment(id) ==
  /\ EditorShown
  /\ id \in Ids(segments)
  /\ editingSegmentId # id
  /\ editingSegmentId' = id
  /\ UNCHANGED <<pvars, error, useAI, isProcessingAction, dragMode, dragStart, initialBox,
                 now, analysis, ocr, edits, call>>

\* The Done button: setEditingSegmentId(null) (line 451).
DoneEditing ==
  /\ EditorShown
  /\ editingSegmentId \in Ids(segments)
  /\ editingSegmentId' = Null
  /\ UNCHANGED <<pvars, error, useAI, isProcessingAction, dragMode, dragStart, initialBox,
                 now, analysis, ocr, edits, call>>

\* Every variable but segments, editingSegmentId and edits stays.
EditFrame ==
  /\ UNCHANGED <<build, appState, imageSrc, uploads, pendingAnalysis, mounted, mounts,
                 appStateRef, isPlayingRef, currentSegmentIndexRef, mediaRecorderRef,
                 recordedChunksRef, runs>>
  /\ UNCHANGED <<error, useAI, isProcessingAction, dragMode, dragStart, initialBox, now,
                 analysis, ocr, call>>

\* deleteSegment (lines 188-191).
DeleteSegment(id) ==
  /\ EditorShown
  /\ id \in Ids(segments)
  /\ editingSegmentId' = IF editingSegmentId = id THEN Null ELSE editingSegmentId
  /\ segments' = SelectSeq(segments, LAMBDA s : s.id # id)
  /\ edits' = edits
  /\ EditFrame

\* moveSegment (lines 161-170); index counts from 0.
\* moveSegment writing the neighbour over the segment instead of swapping.
moveSegmentOverwrite(q, index, direction) ==
  IF direction = "up" /\ index > 0
    THEN [q EXCEPT ![index + 1] = q[index]]
  ELSE IF direction = "down" /\ index < Len(q) - 1
    THEN [q EXCEPT ![index + 1] = q[index + 2]]
  ELSE q

moveSegment(q, index, direction) ==
  IF direction = "up" /\ index > 0
    THEN [q EXCEPT ![index + 1] = q[index], ![index] = q[index + 1]]
  ELSE IF direction = "down" /\ index < Len(q) - 1
    THEN [q EXCEPT ![index + 1] = q[index + 2], ![index + 2] = q[index + 1]]
  ELSE q

\* The arrow buttons of a card (lines 419-420); the handler returns at once
\* when the app state is not READY (line 162).
MoveSegment(index, direction) ==
  /\ EditorShown
  /\ index \in 0..(Len(segments) - 1)
  /\ segments' = IF appState # "READY" THEN segments
                 ELSE moveSegment(segments, index, direction)
  /\ UNCHANGED <<editingSegmentId, edits>>
  /\ EditFrame

\* updateSegmentText (lines 180-186), from the textarea of the card being
\* edited.
EditTexts == {<<>>, OneTwoThree}

UpdateSegmentText(id, text) ==
  /\ EditorShown
  /\ editingSegmentId = id
  /\ id \in Ids(segments)
  /\ edits < MaxEdits
  /\ LET newDuration == calculateSegmentDuration(text)
         F(s) == [s EXCEPT !.text = text, !.duration = newDuration]
     IN segments' = MapSegment(segments, id, F)
  /\ edits' = edits + 1
  /\ UNCHANGED editingSegmentId
  /\ EditFrame

\* updateSegmentDuration (lines 176-178) with Number(e.target.value) of the
\* Seconds input (lines 443-447: type number, step 0.5, no minimum):
\* stepped down to 0.5, or set to 2.5.
TypedDurations == {5, 25}

UpdateSegmentDuration(id, duration) ==
  /\ EditorShown
  /\ editingSegmentId = id
  /\ id \in Ids(segments)
  /\ edits < MaxEdits
  /\ LET F(s) == [s EXCEPT !.duration = duration]
     IN segments' = MapSegment(segments, id, F)
  /\ edits' = edits + 1
  /\ UNCHANGED editingSegmentId
  /\ EditFrame

\* updateSegmentBox (part_002:172-174, part_003:75-83).
updateSegmentBox(q, id, partialBox) ==
  LET F(s) == [s EXCEPT !.box = [f \in DOMAIN s.box |->
                                   IF f \in DOMAIN partialBox THEN partialBox[f] ELSE s.box[f]]]
  IN MapSegment(q, id, F)

\* One of the four range inputs (min 0, max 1000) of the card being edited
\* (part_003:250-279).
SliderValues == {200, 800}

SliderBox(id, field, value) ==
  /\ EditorShown
  /\ editingSegmentId = id
  /\ id \in Ids(segments)
  /\ edits < MaxEdits
  /\ segments' = updateSegmentBox(segments, id, [f \in {field} |-> value])
  /\ edits' = edits + 1
  /\ UNCHANGED editingSegmentId
  /\ EditFrame

\* ---- the scans of the editor ----
NewReveal == <<"N","e","w"," ","R","e","v","e","a","l">>

Scanning == <<"S","c","a","n","n","i","n","g",".",".",".">>

\* The id of line 214; t is the value of Date.now().
CustomIdConstant(t) == <<"custom", 0>>

CustomId(t) == <<"custom", t>>

\* addSegment up to its await (lines 212-222). The button is disabled while
\* isProcessingAction is set.
AddSegment ==
  /\ EditorShown
  /\ ~isProcessingAction
  /\ Len(segments) < MaxEditorSegs
  /\ edits < MaxEdits
  /\ edits' = edits + 1
  /\ LET defaultBox == [xmin |-> 300, ymin |-> 300, xmax |-> 700, ymax |-> 700]
         newId == CustomId(now)
         newSeg == [id |-> newId, text |-> Scanning, box |-> defaultBox, duration |-> 10]
     IN /\ segments' = Append(segments, newSeg)
        /\ editingSegmentId' = newId
        /\ ocr' = [kind |-> "add", id |-> newId]
  /\ isProcessingAction' = TRUE
  /\ UNCHANGED <<pvars_but_segments, error, useAI, dragMode, dragStart, initialBox, now,
                 analysis, call>>

\* scanTextForSegment up to its await (lines 193-200).
ScanTextForSegment(id) ==
  /\ EditorShown
  /\ ~isProcessingAction
  /\ editingSegmentId = id
  /\ id \in Ids(segments)
  /\ edits < MaxEdits
  /\ isProcessingAction' = TRUE
  /\ ocr' = [kind |-> "scan", id |-> id]
  /\ edits' = edits + 1
  /\ UNCHANGED <<pvars, error, useAI, editingSegmentId, dragMode, dragStart, initialBox,
                 now, analysis, call>>

\* await performOCROnBox(...) has settled: the rest of addSegment (lines
\* 223-228) or of scanTextForSegment (lines 201-209). Time has passed.
OcrSettled ==
  /\ ocr.kind # "none"
  /\ now' = now + 1
  /\ \E result \in OcrResults :
       LET text == ReplaceNewlines(Trim(result.text))
           fallback == IF ocr.kind = "add" THEN NewReveal ELSE VisualOnly
           finalText == IF isTextCoherent(text) THEN text ELSE fallback
           duration == calculateSegmentDuration(finalText)
           Found(s) == [s EXCEPT !.text = finalText, !.duration = duration]
           Failed(s) == [s EXCEPT !.text = NewReveal]
       IN segments' = IF ~result.throws THEN MapSegment(segments, ocr.id, Found)
                      ELSE IF ocr.kind = "add" THEN MapSegment(segments, ocr.id, Failed)
                      ELSE segments
  /\ isProcessingAction' = FALSE
  /\ ocr' = NoOcr
  /\ UNCHANGED <<pvars_but_segments, error, useAI, editingSegmentId, dragMode, dragStart,
                 initialBox, analysis, edits, call>>

\* ---- the mouse on the canvas ----
DragModes == {"MOVE", "RESIZE_TL", "RESIZE_TR", "RESIZE_BL", "RESIZE_BR"}

\* The distances dragged, <<deltaX, deltaY>> in box units (lines 791-792).
Drags == {<<-1000, -1000>>, <<300, 300>>, <<-1000, 300>>}

\* handleMouseDown (lines 736-765). The point pressed decides the mode: a
\* corner of the box, or its inside, which a box without area does not have.
HandleMouseDown(mode) ==
  /\ EditorShown
  /\ editingSegmentId \in Ids(segments)
  /\ LET seg == segments[CHOOSE k \in DOMAIN segments : segments[k].id = editingSegmentId]
     IN /\ mode = "MOVE" => (seg.box.xmin < seg.box.xmax /\ seg.box.ymin < seg.box.ymax)
        /\ initialBox' = <<seg.box>>
  /\ edits < MaxEdits
  /\ edits' = edits + 1
  /\ dragMode' = mode
  /\ dragStart' = "set"
  /\ UNCHANGED <<pvars, error, useAI, editingSegmentId, isProcessingAction, now, analysis,
                 ocr, call>>

\* The box of lines 793-823.
DraggedBox(mode, initial, deltaX, deltaY) ==
  LET newBox ==
        CASE mode = "MOVE" ->
               [xmin |-> Clamp(initial.xmin + deltaX), ymin |-> Clamp(initial.ymin + deltaY),
                xmax |-> Clamp(initial.xmax + deltaX), ymax |-> Clamp(initial.ymax + deltaY)]
          [] mode = "RESIZE_TL" ->
               [initial EXCEPT !.xmin = Min(initial.xmax - 10, initial.xmin + deltaX),
                               !.ymin = Min(initial.ymax - 10, initial.ymin + deltaY)]
          [] mode = "RESIZE_TR" ->
               [initial EXCEPT !.xmax = Max(initial.xmin + 10, initial.xmax + deltaX),
                               !.ymin = Min(initial.ymax - 10, initial.ymin + deltaY)]
          [] mode = "RESIZE_BL" ->
               [initial EXCEPT !.xmin = Min(initial.xmax - 10, initial.xmin + deltaX),
                               !.ymax = Max(initial.ymin + 10, initial.ymax + deltaY)]
          [] mode = "RESIZE_BR" ->
               [initial EXCEPT !.xmax = Max(initial.xmin + 10, initial.xmax + deltaX),
                               !.ymax = Max(initial.ymin + 10, initial.ymax + deltaY)]
  IN [xmin |-> Clamp(newBox.xmin), ymin |-> Clamp(newBox.ymin),
      xmax |-> Clamp(newBox.xmax), ymax |-> Clamp(newBox.ymax)]

\* handleMouseMove while dragging (lines 788-825).
HandleMouseMove(deltaX, deltaY) ==
  /\ EditorShown
  /\ dragMode # "NONE"
  /\ dragStart = "set"
  /\ initialBox # Null
  /\ editingSegmentId # Null
  /\ segments' = updateSegmentBox(segments, editingSegmentId,
                                  DraggedBox(dragMode, initialBox[1], deltaX, deltaY))
  /\ UNCHANGED <<editingSegmentId, edits>>
  /\ EditFrame

\* handleMouseUp (lines 827-831).
HandleMouseUp ==
  /\ EditorShown
  /\ dragStart = "set"
  /\ dragMode' = "NONE"
  /\ dragStart' = "null"
  /\ initialBox' = Null
  /\ UNCHANGED <<pvars, error, useAI, editingSegmentId, isProcessingAction, now, analysis,
                 ocr, edits, call>>

\* The editor as far as the boxes go: local segmentation, added segments,
\* drags and sliders.
NextBoxes ==
  \/ UploadToEdit
  \/ LocalAnalysisSettled
  \/ \E id \in Ids(segments) : SelectSegment(id)
  \/ DoneEditing
  \/ AddSegment
  \/ OcrSettled
  \/ \E mode \in DragModes : HandleMouseDown(mode)
  \/ \E delta \in Drags : HandleMouseMove(delta[1], delta[2])
  \/ HandleMouseUp
  \/ \E id \in Ids(segments), field \in {"xmin", "ymin", "xmax", "ymax"}, value \in SliderValues :
       SliderBox(id, field, value)
  \/ HandleReset

SpecBoxes == InitApp /\ [][NextBoxes]_vars

\* The editor as far as ids, texts and durations go, after either analysis.
NextEditor ==
  \/ ToggleAI
  \/ UploadToEdit
  \/ LocalAnalysisSettled
  \/ MemeAnalysisSettled
  \/ \E k \in 1..MaxAiSegs : SpeechSettled(k)
  \/ \E id \in Ids(segments) : SelectSegment(id)
  \/ DoneEditing
  \/ \E id \in Ids(segments) : DeleteSegment(id)
  \/ \E index \in 0..(MaxEditorSegs - 1), direction \in {"up", "down"} :
       MoveSegment(index, direction)
  \/ \E id \in Ids(segments), text \in EditTexts : UpdateSegmentText(id, text)
  \/ \E id \in Ids(segments), duration \in TypedDurations : UpdateSegmentDuration(id, duration)
  \/ \E id \in Ids(segments) : ScanTextForSegment(id)
  \/ AddSegment
  \/ OcrSettled
  \/ HandleReset

SpecEditor == InitApp /\ [][NextEditor]_vars

\* C11: in every reachable state every segment's box has xmin < xmax,
\* ymin < ymax and every coordinate within 0..1000, for the boxes of the
\* local segmentation and after any drags and slider updates.
ValidBox(box) ==
  /\ box.xmin < box.xmax
  /\ box.ymin < box.ymax
  /\ \A f \in DOMAIN box : 0 <= box[f] /\ box[f] <= 1000

C11_BoxInvariant == \A k \in DOMAIN segments : ValidBox(segments[k].box)

\* C12: in every reachable state every segment without audio has a duration
\* of at least 1.0 s.
C12_MinimumDuration ==
  \A k \in DOMAIN segments : ~HasAudio(segments[k]) => segments[k].duration >= 10

\* C13: no two segments of the list share an id, and a step of the editor
\* (anything but a new segmentation or a reset) changes the id of no
\* segment: ids are kept, only dropped by a deletion and added by addSegment.
UniqueIds(q) == \A a, b \in DOMAIN q : a # b => q[a].id # q[b].id

C13_IdsUniqueAndStable ==
  [][/\ UniqueIds(segments')
     /\ (analysis' = analysis /\ appState' # "IDLE") =>
          /\ Len(segments') = Len(segments) =>
               /\ Ids(segments') = Ids(segments)
               /\ \A k \in DOMAIN segments :
                    \/ segments'[k].id = segments[k].id
                    \/ \E j \in DOMAIN segments : segments'[k] = segments[j]
          /\ Len(segments') > Len(segments) =>
               SubSeq(segments', 1, Len(segments)) = segments
          /\ Len(segments') < Len(segments) =>
               \A k \in DOMAIN segments' : \E j \in DOMAIN segments : segments'[k] = segments[j]]_vars

C13_Witness ==
  /\ Len(segments) = 2
  /\ segments[1].id[1] = "custom"
  /\ segments[2].id[1] = "custom"
  /\ segments[1].id # segments[2].id
  /\ segments[1].duration # 10

\* ======================================= reordering and playback (JIT) ====
\* The editor's arrow buttons together with the playback engine: the lists
\* of SessionLists, reordered, then previewed or exported.
NextReorder ==
  \/ HandleFileUpload
  \/ ProcessImageDoneSession
  \/ \E index \in 0..(MaxSegs - 1), direction \in {"up", "down"} :
       MoveSegment(index, direction)
  \/ Preview
  \/ Export
  \/ HandleReset
  \/ \E r \in DOMAIN runs : StepJIT(r)

SpecReorder == InitJIT /\ [][NextReorder]_vars

\* q2 is q with the segments at positions a and b (from 1) exchanged.
Swapped(q, q2, a, b) ==
  /\ Len(q2) = Len(q)
  /\ q2[a] = q[b]
  /\ q2[b] = q[a]
  /\ \A k \in DOMAIN q : k \notin {a, b} => q2[k] = q[k]

\* C21: a step of moveSegment(index, direction) changes only the order of
\* the list and nothing else of the state: outside READY the list is
\* unchanged, 'up' at index 0 and 'down' at the last index are no-ops, and
\* otherwise the segment is swapped with its neighbour in that direction,
\* the list holding the same segments; and a playback run started by a
\* step iterates over the list as it is at that step, from its first
\* segment on.
C21_MoveReorders ==
  [][/\ \A index \in 0..(MaxSegs - 1), direction \in {"up", "down"} :
          MoveSegment(index, direction) =>
            /\ {segments'[k] : k \in DOMAIN segments'} = {segments[k] : k \in DOMAIN segments}
            /\ appState' = appState
            /\ appState # "READY" => segments' = segments
            /\ (appState = "READY" /\ direction = "up") =>
                 IF index = 0 THEN segments' = segments
                 ELSE Swapped(segments, segments', index, index + 1)
            /\ (appState = "READY" /\ direction = "down") =>
                 IF index = Len(segments) - 1 THEN segments' = segments
                 ELSE Swapped(segments, segments', index + 1, index + 2)
     /\ \A r \in DOMAIN runs' :
          r \notin DOMAIN runs =>
            /\ runs'[r].segments \in {segments, <<>>}
            /\ runs'[r].pc # "done" =>
                 /\ runs'[r].segments = segments
                 /\ runs'[r].visited = 0 =>
                      (runs'[r].pc \in {"start", "resume", "permission"} \/ segments = <<>>)
                 /\ runs'[r].visited > 0 => (runs'[r].i = 0 /\ runs'[r].visited = 1)
    ]_vars

\* A run goes through a list that was reordered: it is at the second
\* segment of <<4, 3>>, a list the analysis delivers as <<3, 4>>.
C21_Witness ==
  \E r \in DOMAIN runs :
    /\ runs[r].segments = <<PoolById(4), PoolById(3)>>
    /\ segments = <<PoolById(4), PoolById(3)>>
    /\ runs[r].i = 1
    /\ runs[r].pc = "wait"

\* ------------------------------------------------ claims on the engine ----
\* C22 (JIT version): at most one run is between the call of playSequence
\* and its return, whatever the user does.
C22_SingleActiveRun ==
  \A a, b \in DOMAIN runs : (runs[a].pc # "done" /\ runs[b].pc # "done") => a = b

\* C23 (JIT version): once a run has been interrupted while it awaits the
\* decode of the current segment's payload, or the just-in-time fetch and
\* its decode, the completion of that await starts no buffer source.
C23_CancelledAudioIgnored ==
  [][\A r \in DOMAIN runs :
       (runs[r].interrupted /\ runs[r].pc \in {"decode", "fetch", "jitdecode"})
         => runs'[r].sounding \subseteq runs[r].sounding]_vars

\* The recorder of run k is stopped by this step.
Stops(k) ==
  /\ k \in DOMAIN runs
  /\ runs[k].recorder = "recording"
  /\ runs'[k].recorder # "recording"

\* C24 (JIT version): in a recording run whose setup did not fail, the
\* recorder records whenever the run sets the reveal index; the recorder is
\* stopped once, by its own run, after the loop; the run does not return
\* with its recorder still recording; the stop event puts the buffered
\* chunks into one download; and the app state goes from RECORDING to READY
\* only in the step of that download.
C24_CaptureBrackets ==
  [][/\ \A r \in DOMAIN runs' :
          runs'[r].isRecording =>
            /\ runs'[r].visited # Visited(runs, r) => runs'[r].recorder = "recording"
            /\ Stops(r) => (runs[r].pc = "tail" /\ runs'[r].pc = "done")
            /\ (runs'[r].pc = "done" /\ runs'[r].outcome \in {"completed", "crashed"})
                 => runs'[r].recorder \in {"stopping", "inactive"}
            /\ (r \in DOMAIN runs /\ runs'[r].download # runs[r].download) =>
                 /\ runs[r].download = -1
                 /\ runs[r].recorder = "stopping"
                 /\ runs'[r].download = recordedChunksRef'[runs[r].inst]
     /\ (appState = "RECORDING" /\ appState' = "READY") =>
          \E r \in DOMAIN runs :
            \/ runs'[r].download # runs[r].download
            \/ runs'[r].outcome \in {"ctor", "start"} /\ runs[r].outcome = ""
    ]_vars

\* ================================== playback of a locally analysed image ====
\* The characters of a text as one string, the form in which the engine's
\* segments hold their text.
RECURSIVE JoinChars(_)
JoinChars(t) == IF t = <<>> THEN "" ELSE Head(t) \o JoinChars(Tail(t))

\* A segment of the local analysis as playSequence reads it: the local
\* path sets neither audioBase64 nor audioType (both undefined, so falsy).
AsPlayed(seg) ==
  [id |-> seg.id, text |-> JoinChars(seg.text), audioBase64 |-> "",
   audioType |-> "undefined", duration |-> seg.duration]

\* The lists analyzeLocalImage can resolve with for the plain image.
LocalLists ==
  LET rects == RectsOf(PlainImage)
  IN { [k \in 1..Len(rects) |->
          AsPlayed(analyzeLocalImage(PlainImage, rects, results, 1).segments[k])] :
         results \in [1..Len(rects) -> {Recognized(OneTwoThree), Recognized(Marks)}] }

ProcessImageDoneLocal == ProcessImage(LocalLists)

NextLocalPlayback ==
  \/ HandleFileUpload
  \/ ProcessImageDoneLocal
  \/ Preview
  \/ Export
  \/ HandleReset
  \/ \E r \in DOMAIN runs : StepJIT(r)

SpecLocalPlayback == InitJIT /\ [][NextLocalPlayback]_vars

\* C25 (JIT version): while a run is at a segment whose text is the
\* "(Visual Only)" placeholder, it has chosen no audio source, awaits
\* neither an utterance nor a fetch, and its wait timer is the segment's
\* duration.
C25_PlaceholderIsSilent ==
  \A r \in DOMAIN runs :
    (InLoop(runs[r]) /\ Seg(runs[r]).text = "(Visual Only)") =>
      /\ runs[r].src = "none"
      /\ runs[r].pc \notin {"speak", "fetch", "jitdecode"}
      /\ runs[r].pc = "wait" => runs[r].timer = Seg(runs[r]).duration

\* ============================================ text edits, both versions ====
\* The repository holds an earlier App (part_001) beside the one modelled
\* above (part_002); as for VideoCanvas, build says which version runs:
\* "ScreenShare" the earlier one, "JIT" the later one. Upload, local
\* analysis, card selection and Reset are the same in both as far as the
\* segment list goes.
\* updateSegmentText of the earlier App (part_001:143-145): the text alone
\* is replaced.
UpdateSegmentTextEarlier(id, text) ==
  /\ EditorShown
  /\ editingSegmentId = id
  /\ id \in Ids(segments)
  /\ edits < MaxEdits
  /\ LET F(s) == [s EXCEPT !.text = text]
     IN segments' = MapSegment(segments, id, F)
  /\ edits' = edits + 1
  /\ UNCHANGED editingSegmentId
  /\ EditFrame

InitTextEdit ==
  /\ build \in Builds
  /\ PlaybackIdle
  /\ EditorIdle
  /\ call = NoCall

NextTextEdit ==
  \/ UploadToEdit
  \/ LocalAnalysisSettled
  \/ \E id \in Ids(segments) : SelectSegment(id)
  \/ DoneEditing
  \/ \E id \in Ids(segments), text \in EditTexts :
       IF build = "JIT" THEN UpdateSegmentText(id, text) ELSE UpdateSegmentTextEarlier(id, text)
  \/ \E id \in Ids(segments), duration \in TypedDurations : UpdateSegmentDuration(id, duration)
  \/ HandleReset

SpecTextEdit == InitTextEdit /\ [][NextTextEdit]_vars

\* C26: a step of the editor that changes the text of a segment sets that
\* segment's duration to calculateSegmentDuration of the new text, keeps its
\* id and box, and leaves every other segment as it was.
C26_TextEditSetsDuration ==
  [][(analysis' = analysis /\ Len(segments') = Len(segments)) =>
       \A k \in DOMAIN segments :
         segments'[k].text # segments[k].text =>
           /\ segments'[k].duration = calculateSegmentDuration(segments'[k].text)
           /\ segments'[k].id = segments[k].id
           /\ segments'[k].box = segments[k].box
           /\ \A j \in DOMAIN segments : j # k => segments'[j] = segments[j]
    ]_vars

\* ------------------------------------------- claims on the panel sizes ----
\* C27: every panel detectPanels returns, unless it returns the whole image
\* alone, is higher and wider than MIN_PANEL_SIZE: the band above the first
\* horizontal divider and the panel left of the first vertical divider too.
C27_MinimumPanelSize ==
  (call.fn = "detectPanels" /\ call.ret # <<WholeImage(call.arg)>>) =>
    \A k \in DOMAIN call.ret :
      /\ call.ret[k].h > MIN_PANEL_SIZE
      /\ call.ret[k].w > MIN_PANEL_SIZE

\* ========================================================= cleanTextForTTS ====
\* localAnalysisService.ts, lines 180-202.
\* The class \w of line 181.
WordChars == AlphaNumeric \cup {"_"}

\* The characters the second replace of line 181 keeps: [\w\s.,?!'-].
Kept == WordChars \cup WhiteSpace \cup {".", ",", "?", "!", "'", "-"}

IsKept(c) == c \in Kept

\* replace(/\s+/g, ' '): every maximal run of whitespace becomes one blank.
CollapseWhiteSpace(t) ==
  LET firsts == SelectSeq([k \in 1..Len(t) |-> [at |-> k, c |-> t[k]]],
                          LAMBDA e : e.c \notin WhiteSpace
                                     \/ e.at = 1 \/ t[e.at - 1] \notin WhiteSpace)
  IN [k \in 1..Len(firsts) |-> IF firsts[k].c \in WhiteSpace THEN " " ELSE firsts[k].c]

\* cleanTextForTTS (lines 180-182).
cleanTextForTTS(text) == Trim(SelectSeq(CollapseWhiteSpace(text), IsKept))

\* What fetchFreeTTS (lines 184-202) puts into the request: nothing for an
\* empty text or an empty cleaned text, else the cleaned text.
fetchFreeTTS(text) ==
  IF text = <<>> THEN [sent |-> FALSE, text |-> <<>>]
  ELSE LET cleanText == cleanTextForTTS(text)
       IN IF Len(cleanText) = 0 THEN [sent |-> FALSE, text |-> <<>>]
          ELSE [sent |-> TRUE, text |-> cleanText]

\* The argument texts: a letter, a blank, a line break, a full stop and a
\* character that is stripped.
SpokenChars == {"a", " ", "\n", ".", "@"}

SpokenTexts == UNION {[1..n -> SpokenChars] : n \in 0..MaxTextLen}

InitSanitize ==
  /\ build = "JIT"
  /\ PlaybackIdle
  /\ EditorIdle
  /\ call \in {[fn |-> "text", arg |-> t] : t \in SpokenTexts}

CleanTextForTTSCall ==
  /\ call.fn = "text"
  /\ call' = [fn |-> "cleanTextForTTS", arg |-> call.arg, ret |-> cleanTextForTTS(call.arg)]
  /\ UNCHANGED <<pvars, error, useAI, editingSegmentId, isProcessingAction, dragMode,
                 dragStart, initialBox, now, analysis, ocr, edits>>

FetchFreeTTSCall ==
  /\ call.fn = "text"
  /\ call' = [fn |-> "fetchFreeTTS", arg |-> call.arg, ret |-> fetchFreeTTS(call.arg)]
  /\ UNCHANGED <<pvars, error, useAI, editingSegmentId, isProcessingAction, dragMode,
                 dragStart, initialBox, now, analysis, ocr, edits>>

NextSanitize == CleanTextForTTSCall \/ FetchFreeTTSCall

SpecSanitize == InitSanitize /\ [][NextSanitize]_vars

\* t is sanitized: no two whitespace characters in a row, and no character
\* outside letters, digits, underscore, whitespace and . , ? ! ' -
Sanitized(t) ==
  /\ \A k \in 1..(Len(t) - 1) : ~(t[k] \in WhiteSpace /\ t[k + 1] \in WhiteSpace)
  /\ \A k \in 1..Len(t) : t[k] \in Kept

\* C28: what cleanTextForTTS returns, and what fetchFreeTTS sends, is
\* sanitized, and cleanTextForTTS applied to its own result returns it
\* unchanged.
C28_FullySanitized ==
  /\ call.fn = "cleanTextForTTS" =>
       /\ Sanitized(call.ret)
       /\ cleanTextForTTS(call.ret) = call.ret
  /\ (call.fn = "fetchFreeTTS" /\ call.ret.sent) => Sanitized(call.ret.text)

\* -------------------------------------------------- claims on the reset ----
\* C29 (JIT version): the app state leaves IDLE only by an upload, which
\* sets it to ANALYZING; so after Reset it stays IDLE until the next upload,
\* whatever the run that was in progress does afterwards.
C29_ResetStays ==
  [][appState = "IDLE" =>
       \/ appState' = "IDLE"
       \/ appState' = "ANALYZING" /\ uploads' = uploads + 1]_vars

\* ============================================== editing during playback ====
\* The cards of the storyboard stay clickable while a run is in progress:
\* the locally analysed image is played, and cards are selected.
NextOverlay ==
  \/ HandleFileUpload
  \/ ProcessImageDoneLocal
  \/ \E id \in Ids(segments) : SelectSegment(id)
  \/ DoneEditing
  \/ Preview
  \/ Export
  \/ HandleReset
  \/ \E r \in DOMAIN runs : StepJIT(r)

SpecOverlay == InitJIT /\ [][NextOverlay]_vars

\* drawFrame takes its edit-mode branch (part_004:636).
EditModeFrame == editingSegmentId # Null

\* C30 (JIT version): a run is started only while no segment is being
\* edited, and while the app state is PLAYING or RECORDING no segment is
\* being edited, so that no frame of a run is drawn in edit mode.
C30_NoEditDuringRun ==
  [][/\ Len(runs') > Len(runs) => ~EditModeFrame
     /\ appState' \in Running => ~EditModeFrame'
    ]_vars
====
